---- MODULE Spec2Model ----
(***************************************************************************)
(* Account lifecycle of the web API: AccountService (verify, find,         *)
(* findByField, activate, create, update) over the Users table, the token  *)
(* service and the e-mail service.                                         *)
(*                                                                         *)
(* Every asynchronous method is cut at its awaits: one action per store,   *)
(* token-service or e-mail-service request, so that calls interleave the   *)
(* way promises do on the event loop.  A value that may be null/undefined  *)
(* is a set with at most one element ({} is nil).                          *)
(***************************************************************************)
EXTENDS Integers, Sequences, FiniteSets, Bags, TLC

\* ------------------------------------------------------------------ bounds
MaxUsers == 2
MaxTime == 1
MaxInFlight == 2
MaxCalls == 3

\* ------------------------------------------------------------- input sets
Usernames == {"alice", "bob"}
Emails == {"a@x.com", "b@x.com"}
Secrets == {"p", "q"}
Creators == {1}
Updaters == {2}
UserIds == 1..(MaxUsers + 1)

\* ---------------------------------------------------------- configuration
AccessTokenSecret == "accessTokenSecret"
AccessTokenExpirySeconds == 1
ClientId == "client0"
ClientGrants == {"password"}
EmailFrom == "noreply@x.com"
ClientBaseUrl == "https://client"

VARIABLES users, now, outbox, inflight, last, calls, logger

vars == <<users, now, outbox, inflight, last, calls, logger>>

\* ------------------------------------------------------------------ utils
isNil(value) == value = {}

TheOne(option) == CHOOSE v \in option : TRUE

\* ----------------------------------------------------------------- crypto
encrypt(secret) ==
  CASE secret = "p" -> "#p"
    [] secret = "q" -> "#q"
    [] OTHER -> "#"

cryptoVerify(secret, digest) == digest = encrypt(secret)

\* ----------------------------------------------------------------- errors
InvalidRequestError(options) == [kind |-> "InvalidRequestError"] @@ options

Error(message) == [kind |-> "Error", message |-> message]

StoreError == [kind |-> "StoreError", message |-> "store request failed"]

InvalidToken == [kind |-> "InvalidToken", message |-> "invalid signature"]

ExpiredToken == [kind |-> "ExpiredToken", message |-> "jwt expired"]

EmailError == [kind |-> "EmailError", message |-> "email not sent"]

TokenError == [kind |-> "TokenError", message |-> "token not generated"]

\* ----------------------------------------------------------------- logger
\* logger.instance is Logger.instance; constructed counts the Logger objects
\* built, returned holds the objects getInstance has handed out, gets counts
\* its calls.  A Logger object is named by its construction number.

\* variant: every call builds a Logger
getInstanceAlwaysNew ==
  LET instance == {logger.constructed + 1}
  IN [instance |-> instance,
      constructed |-> logger.constructed + 1,
      returned |-> logger.returned \cup instance,
      gets |-> logger.gets + 1]

\* logger.ts 14-19: the logger after one call of Logger.getInstance()
getInstance ==
  LET instance == IF isNil(logger.instance)
                  THEN {logger.constructed + 1}
                  ELSE logger.instance
  IN [instance |-> instance,
      constructed |-> IF isNil(logger.instance)
                      THEN logger.constructed + 1
                      ELSE logger.constructed,
      returned |-> logger.returned \cup instance,
      gets |-> logger.gets + 1]

\* Logger.getInstance().log(...) runs in this step when the condition holds
Logged(condition) == logger' = IF condition THEN getInstance ELSE logger

\* ---------------------------------------------------------- call outcomes
Return(op, arg, ret) ==
  [op |-> op, arg |-> arg, ok |-> TRUE, ret |-> ret, err |-> {}]

Throw(op, arg, e) ==
  [op |-> op, arg |-> arg, ok |-> FALSE, ret |-> {}, err |-> {e}]

None == Return("none", {}, {})

\* no outcome is waiting to be taken by a caller
Idle == last.op = "none"

\* a further call may start: fewer than MaxInFlight calls are executing
MayStart == Idle /\ BagCardinality(inflight) < MaxInFlight

\* ------------------------------------------------------------ Users table
StoreOutcomes == {"ok", "error"}

Matching(field, value) == {i \in 1..Len(users) : users[i][field] = value}

\* findOne has no ORDER BY: any matching row may come back.
findOne(field, value) ==
  IF Matching(field, value) = {} THEN {{}}
  ELSE {{users[i]} : i \in Matching(field, value)}

Assign(row, partial) ==
  [f \in DOMAIN row |-> IF f \in DOMAIN partial THEN partial[f] ELSE row[f]]

storeUpdateRows(partial, id) ==
  [i \in 1..Len(users) |->
    IF users[i].id = id THEN Assign(users[i], partial) ELSE users[i]]

\* update(partial, {where: {id}, returning: true}) -> [affectedCount, rows]
storeUpdateResult(partial, id) ==
  LET hit == SelectSeq(storeUpdateRows(partial, id), LAMBDA r : r.id = id)
  IN <<Len(hit), {hit}>>

storeCreateRow(partial) == [id |-> Len(users) + 1] @@ partial

\* --------------------------------------------------------- json converter
deserialize(userObject) ==
  [f \in DOMAIN userObject |-> userObject[f]]

\* ---------------------------------------------------------- token service
tokenGenerate(userId, clientId, clientSecret, expirySeconds, grants) ==
  [userId |-> {userId}, clientId |-> clientId, secret |-> clientSecret,
   exp |-> now + expirySeconds, grants |-> grants]

\* {} when the token verifies, otherwise the error raised
tokenVerifyError(token, secret) ==
  IF token.secret # secret THEN {InvalidToken}
  ELSE IF now >= token.exp THEN {ExpiredToken}
  ELSE {}

Init ==
  /\ users = <<>>
  /\ now = 0
  /\ outbox = {}
  /\ inflight = EmptyBag
  /\ last = None
  /\ calls = 0
  /\ logger = [instance |-> {}, constructed |-> 0, returned |-> {}, gets |-> 0]

tick ==
  /\ Idle
  /\ now < MaxTime
  /\ now' = now + 1
  /\ UNCHANGED <<users, outbox, inflight, last, calls, logger>>

\* ---------------------------------------------------------- verify (38-59)
Credentials == [username : Usernames, password : Secrets]

\* variant: the wrong-secret rejection words its message differently
verifyOutcomeTellingCause(credentials, userObject) ==
  IF isNil(userObject)
  THEN Throw("verify", {credentials},
             InvalidRequestError([message |-> "Invalid credentials.",
                                  name |-> "INVALID_CREDENTIALS"]))
  ELSE LET user == deserialize(TheOne(userObject))
       IN IF ~cryptoVerify(credentials.password, user.password)
          THEN Throw("verify", {credentials},
                     InvalidRequestError([message |-> "Invalid password.",
                                          name |-> "INVALID_CREDENTIALS"]))
          ELSE Return("verify", {credentials}, {user})

verifyOutcome(credentials, userObject) ==
  IF isNil(userObject)
  THEN Throw("verify", {credentials},
             InvalidRequestError([message |-> "Invalid credentials.",
                                  name |-> "INVALID_CREDENTIALS"]))
  ELSE LET user == deserialize(TheOne(userObject))
       IN IF ~cryptoVerify(credentials.password, user.password)
          THEN Throw("verify", {credentials},
                     InvalidRequestError([message |-> "Invalid credentials.",
                                          name |-> "INVALID_CREDENTIALS"]))
          ELSE Return("verify", {credentials}, {user})

\* variant: a successful verify stamps the account it returns
verifyStamping(credentials) ==
  /\ MayStart
  /\ \E outcome \in StoreOutcomes :
       IF outcome = "error"
       THEN /\ last' = Throw("verify", {}, StoreError)
            /\ users' = users
       ELSE \E userObject \in findOne("username", credentials.username) :
              /\ last' = verifyOutcome(credentials, userObject)
              /\ users' = IF last'.ok
                          THEN storeUpdateRows([updatedBy |-> 0],
                                               TheOne(userObject).id)
                          ELSE users
  /\ UNCHANGED <<now, outbox, inflight, calls, logger>>

verify(credentials) ==
  /\ MayStart
  /\ \E outcome \in StoreOutcomes :
       IF outcome = "error"
       THEN last' = Throw("verify", {}, StoreError)
       ELSE \E userObject \in findOne("username", credentials.username) :
              last' = verifyOutcome(credentials, userObject)
  /\ UNCHANGED <<users, now, outbox, inflight, calls, logger>>

\* ------------------------------------------------------------ find (61-75)
\* variant: a miss answers null the way findByField does
findOutcomeNullOnMiss(userId, userObject) ==
  IF isNil(userObject)
  THEN Return("find", {[userId |-> userId]}, {})
  ELSE Return("find", {[userId |-> userId]}, {deserialize(TheOne(userObject))})

findOutcome(userId, userObject) ==
  IF isNil(userObject)
  THEN Throw("find", {[userId |-> userId]},
             InvalidRequestError([httpStatusCode |-> 404,
                                  message |-> "Account not found.",
                                  name |-> "NOT_FOUND"]))
  ELSE Return("find", {[userId |-> userId]}, {deserialize(TheOne(userObject))})

find(userId) ==
  /\ MayStart
  /\ \E outcome \in StoreOutcomes :
       IF outcome = "error"
       THEN last' = Throw("find", {}, StoreError)
       ELSE \E userObject \in findOne("id", userId) :
              last' = findOutcome(userId, userObject)
  /\ UNCHANGED <<users, now, outbox, inflight, calls, logger>>

\* ----------------------------------------------------- findByField (77-87)
Lookups == ({"username"} \X Usernames) \cup ({"email"} \X Emails)

findByFieldReturn(userObject) ==
  IF isNil(userObject) THEN {} ELSE {deserialize(TheOne(userObject))}

findByField(field, value) ==
  /\ MayStart
  /\ \E outcome \in StoreOutcomes :
       IF outcome = "error"
       THEN last' = Throw("findByField", {}, StoreError)
       ELSE \E userObject \in findOne(field, value) :
              last' = Return("findByField", {[field |-> field, value |-> value]},
                             findByFieldReturn(userObject))
  /\ UNCHANGED <<users, now, outbox, inflight, calls, logger>>

\* -------------------------------------------------------- activate (89-110)
Tokens ==
  [userId : {{}} \cup {{i} : i \in UserIds},
   clientId : {ClientId},
   secret : {AccessTokenSecret, "forged"},
   exp : 1..(MaxTime + 1),
   grants : {ClientGrants}]

decodeURIComponent(encoded) == encoded.raw

\* tokens a caller can present: any token, or one taken from a delivered link
PresentedTokens ==
  Tokens \cup {decodeURIComponent(m.parameters.activationLink.token) : m \in outbox}

\* variant: the outcome of the token verification is not awaited
activateUnverified(token) ==
  /\ MayStart
  /\ calls < MaxCalls
  /\ calls' = calls + 1
  /\ LET jwtToken == token
     IN IF isNil(jwtToken.userId)
        THEN /\ last' = Throw("activate", {},
                              Error("Token doesn't have the user ID set"))
             /\ UNCHANGED inflight
        ELSE /\ inflight' = inflight (+) SetToBag({[op |-> "activate",
                                                    pc |-> "update",
                                                    userId |-> jwtToken.userId]})
             /\ UNCHANGED last
  /\ Logged(~isNil(token.userId))
  /\ UNCHANGED <<users, now, outbox>>

\* lines 90-103: verify the token, then issue the store update
activate(token) ==
  /\ MayStart
  /\ calls < MaxCalls
  /\ calls' = calls + 1
  /\ LET failure == tokenVerifyError(token, AccessTokenSecret)
         jwtToken == token
     IN IF ~isNil(failure)
        THEN /\ last' = Throw("activate", {}, TheOne(failure))
             /\ UNCHANGED inflight
        ELSE IF isNil(jwtToken.userId)
        THEN /\ last' = Throw("activate", {},
                              Error("Token doesn't have the user ID set"))
             /\ UNCHANGED inflight
        ELSE /\ inflight' = inflight (+) SetToBag({[op |-> "activate",
                                                    pc |-> "update",
                                                    userId |-> jwtToken.userId]})
             /\ UNCHANGED last
  /\ Logged(isNil(tokenVerifyError(token, AccessTokenSecret)) /\ ~isNil(token.userId))
  /\ UNCHANGED <<users, now, outbox>>

\* variant: an account that is already active cannot be activated again
activateUpdateOnce(call) ==
  /\ Idle
  /\ call \in BagToSet(inflight)
  /\ call.op = "activate"
  /\ call.pc = "update"
  /\ inflight' = inflight (-) SetToBag({call})
  /\ \E outcome \in StoreOutcomes :
       IF outcome = "error"
       THEN /\ users' = users
            /\ last' = Throw("activate", {}, StoreError)
       ELSE LET userPartial == [active |-> TRUE]
                result == storeUpdateResult(userPartial, TheOne(call.userId))
                affectedRows == result[2]
                activeAlready == \E i \in 1..Len(users) :
                                   users[i].id \in call.userId /\ users[i].active
            IN /\ users' = storeUpdateRows(userPartial, TheOne(call.userId))
               /\ last' = IF isNil(affectedRows) \/ activeAlready
                          THEN Throw("activate", {}, Error("User not found"))
                          ELSE Return("activate", {}, {})
  /\ UNCHANGED <<now, outbox, calls, logger>>

\* lines 104-109: the store update completes
activateUpdate(call) ==
  /\ Idle
  /\ call \in BagToSet(inflight)
  /\ call.op = "activate"
  /\ call.pc = "update"
  /\ inflight' = inflight (-) SetToBag({call})
  /\ \E outcome \in StoreOutcomes :
       IF outcome = "error"
       THEN /\ users' = users
            /\ last' = Throw("activate", {}, StoreError)
       ELSE LET userPartial == [active |-> TRUE]
                result == storeUpdateResult(userPartial, TheOne(call.userId))
                affectedRows == result[2]
            IN /\ users' = storeUpdateRows(userPartial, TheOne(call.userId))
               /\ last' = IF isNil(affectedRows)
                          THEN Throw("activate", {}, Error("User not found"))
                          ELSE Return("activate", {}, {})
  /\ UNCHANGED <<now, outbox, calls, logger>>

\* ---------------------------------------------------------- update (140-153)
prepareUserPartialForUpdate(userPartial, updatedBy) ==
  LET stamped == [updatedAt |-> now, updatedBy |-> updatedBy] @@ userPartial
  IN IF "password" \in DOMAIN userPartial /\ userPartial.password # ""
     THEN [password |-> encrypt(userPartial.password)] @@ stamped
     ELSE stamped

\* a partial names the row and carries at most one other field
UpdatePartials ==
  LET ids == [id : UserIds]
  IN ids
     \cup {p @@ [username |-> "alice"] : p \in ids}
     \cup {p @@ [email |-> "a@x.com"] : p \in ids}
     \cup {p @@ [password |-> s] : p \in ids, s \in {"q", ""}}
     \cup {p @@ [active |-> a] : p \in ids, a \in BOOLEAN}

update(userPartial, updatedBy) ==
  /\ MayStart
  /\ calls < MaxCalls
  /\ calls' = calls + 1
  /\ \E outcome \in StoreOutcomes :
       IF outcome = "error"
       THEN /\ users' = users
            /\ last' = Throw("update", {}, StoreError)
       ELSE LET prepared == prepareUserPartialForUpdate(userPartial, updatedBy)
                updatedUser == {storeUpdateResult(prepared, userPartial.id)}
            IN /\ users' = storeUpdateRows(prepared, userPartial.id)
               /\ last' = IF isNil(updatedUser)
                          THEN Throw("update", {}, Error("Failed to updated user"))
                          ELSE Return("update", {}, {})
  /\ UNCHANGED <<now, outbox, inflight, logger>>

\* ---------------------------------------------------------- create (123-138)
NewUser(username, email) ==
  [username |-> username, email |-> email, password |-> "p", firstName |-> "Al"]

\* two unrelated accounts, one that reuses an email under another username,
\* and one whose caller supplies an active flag
CreatePartials ==
  {NewUser("alice", "a@x.com"), NewUser("bob", "b@x.com"),
   NewUser("bob", "a@x.com"),
   NewUser("alice", "a@x.com") @@ [active |-> TRUE]}

AlreadyExists ==
  Error("An user account with the same username or email already exists")

\* variant: a supplied active flag is kept
prepareUserPartialForCreateKeepingActive(newUserPartial, createdBy) ==
  LET currentDate == now
  IN [createdAt |-> currentDate, updatedAt |-> currentDate,
      createdBy |-> createdBy, updatedBy |-> createdBy,
      password |-> encrypt(newUserPartial.password)]
     @@ newUserPartial @@ [active |-> FALSE]

prepareUserPartialForCreate(newUserPartial, createdBy) ==
  LET currentDate == now
  IN [createdAt |-> currentDate, updatedAt |-> currentDate,
      createdBy |-> createdBy, updatedBy |-> createdBy,
      active |-> FALSE, password |-> encrypt(newUserPartial.password)]
     @@ newUserPartial

\* lines 124, 178-181: the username lookup of userExists
create(newUserPartial, createdBy) ==
  /\ MayStart
  /\ calls < MaxCalls
  /\ calls' = calls + 1
  /\ \E outcome \in StoreOutcomes :
       IF outcome = "error"
       THEN /\ last' = Throw("create", {}, StoreError)
            /\ UNCHANGED inflight
       ELSE \E userObject \in findOne("username", newUserPartial.username) :
              LET userWithSameUsername == findByFieldReturn(userObject)
              IN IF ~isNil(userWithSameUsername)
                 THEN /\ last' = Throw("create", {[partial |-> newUserPartial,
                                                   createdBy |-> createdBy]},
                                       AlreadyExists)
                      /\ UNCHANGED inflight
                 ELSE /\ inflight' = inflight (+) SetToBag({
                           [op |-> "create", pc |-> "findEmail",
                            args |-> [partial |-> newUserPartial,
                                      createdBy |-> createdBy]]})
                      /\ UNCHANGED last
  /\ Logged(last'.err = {AlreadyExists})
  /\ UNCHANGED <<users, now, outbox>>

\* variant: userExists looks the username up only
createCheckEmailSkipped(call) ==
  /\ Idle
  /\ call \in BagToSet(inflight)
  /\ call.op = "create"
  /\ call.pc = "findEmail"
  /\ inflight' = (inflight (-) SetToBag({call})) (+) SetToBag({
        [op |-> "create", pc |-> "insert", args |-> call.args,
         partial |-> prepareUserPartialForCreate(
                       call.args.partial, call.args.createdBy)]})
  /\ UNCHANGED <<users, now, outbox, calls, last, logger>>

\* lines 182-186, 125-131: the email lookup of userExists, then the insert is issued
createCheckEmail(call) ==
  /\ Idle
  /\ call \in BagToSet(inflight)
  /\ call.op = "create"
  /\ call.pc = "findEmail"
  /\ \E outcome \in StoreOutcomes :
       IF outcome = "error"
       THEN /\ last' = Throw("create", {}, StoreError)
            /\ inflight' = inflight (-) SetToBag({call})
       ELSE \E userObject \in findOne("email", call.args.partial.email) :
              LET userWithSameEmail == findByFieldReturn(userObject)
              IN IF ~isNil(userWithSameEmail)
                 THEN /\ last' = Throw("create", {call.args}, AlreadyExists)
                      /\ inflight' = inflight (-) SetToBag({call})
                 ELSE /\ inflight' = (inflight (-) SetToBag({call})) (+) SetToBag({
                           [op |-> "create", pc |-> "insert", args |-> call.args,
                            partial |-> prepareUserPartialForCreate(
                                          call.args.partial, call.args.createdBy)]})
                      /\ UNCHANGED last
  /\ Logged(last'.err = {AlreadyExists})
  /\ UNCHANGED <<users, now, outbox, calls>>

\* outcomes of the store's create: a record, nothing, or a rejection
InsertOutcomes == IF Len(users) < MaxUsers THEN {"ok", "null", "error"} ELSE {"error"}

\* variant: the table has unique indexes on username and email
createInsertUnique(call) ==
  /\ Idle
  /\ call \in BagToSet(inflight)
  /\ call.op = "create"
  /\ call.pc = "insert"
  /\ \E outcome \in InsertOutcomes :
       LET createdUser == IF outcome = "ok" THEN {storeCreateRow(call.partial)} ELSE {}
           duplicate == \/ Matching("username", call.partial.username) # {}
                        \/ Matching("email", call.partial.email) # {}
       IN IF outcome = "error" \/ duplicate
          THEN /\ users' = users
               /\ last' = Throw("create", {}, StoreError)
               /\ inflight' = inflight (-) SetToBag({call})
          ELSE IF isNil(createdUser)
          THEN /\ users' = users
               /\ last' = Throw("create", {}, Error("Account not created"))
               /\ inflight' = inflight (-) SetToBag({call})
          ELSE /\ users' = Append(users, TheOne(createdUser))
               /\ inflight' = (inflight (-) SetToBag({call})) (+) SetToBag({
                    [op |-> "create", pc |-> "sendEmail", args |-> call.args,
                     user |-> TheOne(createdUser)]})
               /\ UNCHANGED last
  /\ Logged(last'.err = {Error("Account not created")})
  /\ UNCHANGED <<now, outbox, calls>>

\* variant: a rejected insert is reported and attempted again
createInsertRetrying(call) ==
  /\ Idle
  /\ call \in BagToSet(inflight)
  /\ call.op = "create"
  /\ call.pc = "insert"
  /\ \E outcome \in InsertOutcomes :
       LET createdUser == IF outcome = "ok" THEN {storeCreateRow(call.partial)} ELSE {}
       IN IF outcome = "error"
          THEN /\ users' = users
               /\ last' = Throw("create", {}, StoreError)
               /\ inflight' = inflight
          ELSE IF isNil(createdUser)
          THEN /\ users' = users
               /\ last' = Throw("create", {}, Error("Account not created"))
               /\ inflight' = inflight (-) SetToBag({call})
          ELSE /\ users' = Append(users, TheOne(createdUser))
               /\ inflight' = (inflight (-) SetToBag({call})) (+) SetToBag({
                    [op |-> "create", pc |-> "sendEmail", args |-> call.args,
                     user |-> TheOne(createdUser)]})
               /\ UNCHANGED last
  /\ Logged(last'.err = {Error("Account not created")})
  /\ UNCHANGED <<now, outbox, calls>>

\* lines 131-137, 190-193: the insert completes, token generation is requested
createInsert(call) ==
  /\ Idle
  /\ call \in BagToSet(inflight)
  /\ call.op = "create"
  /\ call.pc = "insert"
  /\ \E outcome \in InsertOutcomes :
       LET createdUser == IF outcome = "ok" THEN {storeCreateRow(call.partial)} ELSE {}
       IN IF outcome = "error"
          THEN /\ users' = users
               /\ last' = Throw("create", {}, StoreError)
               /\ inflight' = inflight (-) SetToBag({call})
          ELSE IF isNil(createdUser)
          THEN /\ users' = users
               /\ last' = Throw("create", {}, Error("Account not created"))
               /\ inflight' = inflight (-) SetToBag({call})
          ELSE /\ users' = Append(users, TheOne(createdUser))
               /\ inflight' = (inflight (-) SetToBag({call})) (+) SetToBag({
                    [op |-> "create", pc |-> "sendEmail", args |-> call.args,
                     user |-> TheOne(createdUser)]})
               /\ UNCHANGED last
  /\ Logged(last'.err = {Error("Account not created")})
  /\ UNCHANGED <<now, outbox, calls>>

encodeURIComponent(raw) == [raw |-> raw]

\* variant: the token is issued for the creating actor, not the created account
sendAccountActivationEmailToActor(call) ==
  /\ Idle
  /\ call \in BagToSet(inflight)
  /\ call.op = "create"
  /\ call.pc = "sendEmail"
  /\ inflight' = inflight (-) SetToBag({call})
  /\ \E outcome \in {"ok", "tokenError", "emailError"} :
       LET accessToken == tokenGenerate(call.args.createdBy + 1, ClientId,
                                        AccessTokenSecret,
                                        AccessTokenExpirySeconds, ClientGrants)
           activationLink == [base |-> ClientBaseUrl,
                              token |-> encodeURIComponent(accessToken)]
           message == [to |-> call.user.email, from |-> EmailFrom,
                       parameters |-> [name |-> call.user.firstName,
                                       activationLink |-> activationLink]]
       IN IF outcome = "tokenError"
          THEN /\ last' = Throw("create", {}, TokenError)
               /\ UNCHANGED outbox
          ELSE IF outcome = "emailError"
          THEN /\ last' = Throw("create", {}, EmailError)
               /\ UNCHANGED outbox
          ELSE /\ outbox' = outbox \cup {message}
               /\ last' = Return("create", {}, {})
  /\ UNCHANGED <<users, now, calls, logger>>

\* variant: a failing e-mail step deletes the account it was for
sendAccountActivationEmailRollingBack(call) ==
  /\ Idle
  /\ call \in BagToSet(inflight)
  /\ call.op = "create"
  /\ call.pc = "sendEmail"
  /\ inflight' = inflight (-) SetToBag({call})
  /\ \E outcome \in {"ok", "tokenError", "emailError"} :
       LET accessToken == tokenGenerate(call.user.id, ClientId, AccessTokenSecret,
                                        AccessTokenExpirySeconds, ClientGrants)
           activationLink == [base |-> ClientBaseUrl,
                              token |-> encodeURIComponent(accessToken)]
           message == [to |-> call.user.email, from |-> EmailFrom,
                       parameters |-> [name |-> call.user.firstName,
                                       activationLink |-> activationLink]]
           others == SelectSeq(users, LAMBDA row : row.id # call.user.id)
       IN IF outcome = "tokenError"
          THEN /\ last' = Throw("create", {}, TokenError)
               /\ users' = others
               /\ UNCHANGED outbox
          ELSE IF outcome = "emailError"
          THEN /\ last' = Throw("create", {}, EmailError)
               /\ users' = others
               /\ UNCHANGED outbox
          ELSE /\ outbox' = outbox \cup {message}
               /\ users' = users
               /\ last' = Return("create", {}, {})
  /\ UNCHANGED <<now, calls, logger>>

\* lines 112-121, 193-201, 137-138: token generated, e-mail sent, create returns
sendAccountActivationEmail(call) ==
  /\ Idle
  /\ call \in BagToSet(inflight)
  /\ call.op = "create"
  /\ call.pc = "sendEmail"
  /\ inflight' = inflight (-) SetToBag({call})
  /\ \E outcome \in {"ok", "tokenError", "emailError"} :
       LET accessToken == tokenGenerate(call.user.id, ClientId, AccessTokenSecret,
                                        AccessTokenExpirySeconds, ClientGrants)
           activationLink == [base |-> ClientBaseUrl,
                              token |-> encodeURIComponent(accessToken)]
           message == [to |-> call.user.email, from |-> EmailFrom,
                       parameters |-> [name |-> call.user.firstName,
                                       activationLink |-> activationLink]]
       IN IF outcome = "tokenError"
          THEN /\ last' = Throw("create", {}, TokenError)
               /\ UNCHANGED outbox
          ELSE IF outcome = "emailError"
          THEN /\ last' = Throw("create", {}, EmailError)
               /\ UNCHANGED outbox
          ELSE /\ outbox' = outbox \cup {message}
               /\ last' = Return("create", {}, {})
  /\ UNCHANGED <<users, now, calls, logger>>

\* the promise of the completed call settles: its outcome reaches the caller
settle ==
  /\ ~Idle
  /\ last' = None
  /\ UNCHANGED <<users, now, outbox, inflight, calls, logger>>

Next ==
  \/ tick
  \/ \E credentials \in Credentials : verify(credentials)
  \/ \E userId \in UserIds : find(userId)
  \/ \E lookup \in Lookups : findByField(lookup[1], lookup[2])
  \/ \E token \in PresentedTokens : activate(token)
  \/ \E call \in BagToSet(inflight) : activateUpdate(call)
  \/ \E userPartial \in UpdatePartials, updatedBy \in Updaters :
       update(userPartial, updatedBy)
  \/ \E newUserPartial \in CreatePartials, createdBy \in Creators :
       create(newUserPartial, createdBy)
  \/ \E call \in BagToSet(inflight) : createCheckEmail(call)
  \/ \E call \in BagToSet(inflight) : createInsert(call)
  \/ \E call \in BagToSet(inflight) : sendAccountActivationEmail(call)
  \/ settle

Spec == Init /\ [][Next]_vars

\* create, update and activate calls executed one at a time, never overlapping
NoCallInFlight == inflight = EmptyBag

SeqNext ==
  \/ tick
  \/ \E credentials \in Credentials : verify(credentials)
  \/ \E userId \in UserIds : find(userId)
  \/ \E lookup \in Lookups : findByField(lookup[1], lookup[2])
  \/ \E token \in PresentedTokens : NoCallInFlight /\ activate(token)
  \/ \E call \in BagToSet(inflight) : activateUpdate(call)
  \/ \E userPartial \in UpdatePartials, updatedBy \in Updaters :
       NoCallInFlight /\ update(userPartial, updatedBy)
  \/ \E newUserPartial \in CreatePartials, createdBy \in Creators :
       NoCallInFlight /\ create(newUserPartial, createdBy)
  \/ \E call \in BagToSet(inflight) : createCheckEmail(call)
  \/ \E call \in BagToSet(inflight) : createInsert(call)
  \/ \E call \in BagToSet(inflight) : sendAccountActivationEmail(call)
  \/ settle

SeqSpec == Init /\ [][SeqNext]_vars

\* ======================================================== checked properties
InvalidCredentials ==
  [kind |-> "InvalidRequestError", message |-> "Invalid credentials.",
   name |-> "INVALID_CREDENTIALS"]

NotFound ==
  [kind |-> "InvalidRequestError", httpStatusCode |-> 404,
   message |-> "Account not found.", name |-> "NOT_FOUND"]

NoSubject == Error("Token doesn't have the user ID set")

Rows == 1..Len(users)

\* the argument of the call whose outcome is in last
Arg == TheOne(last.arg)

\* C1: whenever the store answers and verify rejects, the cause is an unknown
\* username or a known username with a wrong secret, and in both cases the
\* error is the same InvalidRequestError: name INVALID_CREDENTIALS, message
\* 'Invalid credentials.', no httpStatusCode.
C1_SameFailure ==
  (last.op = "verify" /\ ~last.ok /\ last.err # {StoreError}) =>
    /\ \/ Matching("username", Arg.username) = {}
       \/ \E i \in Matching("username", Arg.username) :
            ~cryptoVerify(Arg.password, users[i].password)
    /\ last.err = {InvalidCredentials}
    /\ "httpStatusCode" \notin DOMAIN TheOne(last.err)

C1_Witness ==
  /\ last.op = "verify"
  /\ last.err = {InvalidCredentials}
  /\ Matching("username", Arg.username) # {}

\* C2: verify answered by the store returns every stored account whose
\* username is the one given and whose stored hash is that of the secret
\* given, active or not.
C2_ValidCredentialsReturnAccount ==
  (last.op = "verify" /\ last.err # {StoreError}) =>
    \A i \in Rows :
      (/\ users[i].username = Arg.username
       /\ users[i].password = encrypt(Arg.password))
      => (last.ok /\ TheOne(last.ret).id = users[i].id)

\* C3: find answered by the store fails with NOT_FOUND / 404 when no row has
\* the id and returns a record with that id otherwise; findByField returns
\* null without an error when nothing matches.
C3_FindContract ==
  /\ (last.op = "find" /\ last.err # {StoreError}) =>
       IF Matching("id", Arg.userId) = {}
       THEN ~last.ok /\ last.err = {NotFound}
       ELSE last.ok /\ TheOne(last.ret).id = Arg.userId
  /\ (last.op = "findByField" /\ last.err # {StoreError}) =>
       (Matching(Arg.field, Arg.value) = {} => last.ok /\ last.ret = {})

C3_Witness ==
  /\ last.op = "find"
  /\ last.err = {NotFound}
  /\ Len(users) > 0

\* C4: an activate whose token fails verification, or verifies but names no
\* subject, raises an error, issues no store update and leaves every account
\* as it was.
C4_FailedTokenLeavesStore ==
  [][\A token \in PresentedTokens :
       (/\ activate(token)
        /\ \/ ~isNil(tokenVerifyError(token, AccessTokenSecret))
           \/ isNil(token.userId))
       => (/\ last'.op = "activate"
           /\ ~last'.ok
           /\ inflight' = inflight
           /\ users' = users)]_vars

C4_Witness ==
  /\ last.op = "activate"
  /\ last.err \in {{NoSubject}, {ExpiredToken}}
  /\ \E i \in Rows : ~users[i].active

\* C5: a create whose username lookup, or whose email lookup, finds a stored
\* account is rejected with the 'already exists' error; it inserts nothing,
\* sends no email and goes no further.
C5_DuplicateBlocksCreate ==
  [][/\ \A newUserPartial \in CreatePartials, createdBy \in Creators :
          (/\ create(newUserPartial, createdBy)
           /\ last'.err # {StoreError}
           /\ Matching("username", newUserPartial.username) # {})
          => (/\ last'.err = {AlreadyExists}
              /\ users' = users
              /\ outbox' = outbox
              /\ inflight' = inflight)
     /\ \A call \in BagToSet(inflight) :
          (/\ createCheckEmail(call)
           /\ last'.err # {StoreError}
           /\ Matching("email", call.args.partial.email) # {})
          => (/\ last'.err = {AlreadyExists}
              /\ users' = users
              /\ outbox' = outbox
              /\ inflight' = inflight (-) SetToBag({call}))]_vars

C5_Witness ==
  /\ last.op = "create"
  /\ last.err = {AlreadyExists}
  /\ Matching("username", Arg.partial.username) = {}
  /\ Matching("email", Arg.partial.email) # {}

\* C6: the row a create inserts has active = FALSE whatever the caller
\* supplied, a password that is the hash of the supplied secret and differs
\* from it, createdBy = updatedBy = the creator, and createdAt = updatedAt.
C6_InsertedRowPrepared ==
  [][\A call \in BagToSet(inflight) :
       (createInsert(call) /\ Len(users') = Len(users) + 1)
       => LET row == users'[Len(users')]
          IN /\ row.active = FALSE
             /\ row.password = encrypt(call.args.partial.password)
             /\ row.password # call.args.partial.password
             /\ row.createdBy = call.args.createdBy
             /\ row.updatedBy = call.args.createdBy
             /\ row.createdAt = row.updatedAt]_vars

C6_Witness ==
  \E call \in BagToSet(inflight) :
    /\ call.op = "create"
    /\ call.pc = "sendEmail"
    /\ "active" \in DOMAIN call.args.partial
    /\ call.args.partial.active
    /\ \E i \in Rows : users[i] = call.user /\ ~users[i].active

\* C7: no two stored accounts share a username and no two share an email
\* (calls executed one at a time).
C7_UniqueUsernameAndEmail ==
  \A i, j \in Rows :
    i # j => /\ users[i].username # users[j].username
             /\ users[i].email # users[j].email

\* C8: an account that is active stays active across every step.
C8_ActiveIsTerminal ==
  [][\A i \in Rows : users[i].active => users'[i].active]_vars

\* C9: a step that turns an account's active flag from false to true is the
\* store update of an activate call whose verified token names that account,
\* and such an update changes no other account.
C9_ActiveOnlyByActivation ==
  [][/\ \A i \in Rows :
          (~users[i].active /\ users'[i].active)
          => \E call \in BagToSet(inflight) :
               activateUpdate(call) /\ call.userId = {users[i].id}
     /\ \A call \in BagToSet(inflight) :
          activateUpdate(call)
          => \A i \in Rows :
               users[i].id \notin call.userId => users'[i] = users[i]]_vars

\* C10: when the store update of activate is answered and no row has the
\* token's subject id, activate raises an error.
C10_ZeroRowsFails ==
  [][\A call \in BagToSet(inflight) :
       (/\ activateUpdate(call)
        /\ last'.err # {StoreError}
        /\ Matching("id", TheOne(call.userId)) = {})
       => ~last'.ok]_vars

\* C11: when the store update of update is answered and no row has the id of
\* the partial (affected count 0), update raises an error.
C11_NoEffectFails ==
  [][\A userPartial \in UpdatePartials, updatedBy \in Updaters :
       (/\ update(userPartial, updatedBy)
        /\ last'.err # {StoreError}
        /\ Matching("id", userPartial.id) = {})
       => ~last'.ok]_vars

\* C12: the uniqueness pre-check and the insert are separate steps: a create
\* that has passed userExists still inserts its row when, by the time of the
\* insert, another account with its username or email has been stored; two
\* overlapping creates thus both insert (the witness is the state with two
\* accounts of one username after two calls).
C12_InsertNotGuarded ==
  \A call \in BagToSet(inflight) :
    (/\ Idle
     /\ call.op = "create"
     /\ call.pc = "insert"
     /\ Len(users) < MaxUsers
     /\ \/ Matching("username", call.partial.username) # {}
        \/ Matching("email", call.partial.email) # {})
    => ENABLED (/\ createInsert(call)
                /\ users' = Append(users, storeCreateRow(call.partial)))

C12_Witness ==
  /\ calls = 2
  /\ Len(users) = 2
  /\ users[1].username = users[2].username
  /\ users[1].email = users[2].email

\* the token carried by the link of a delivered message
LinkToken(message) == decodeURIComponent(message.parameters.activationLink.token)

C14_PasswordRoundTrip ==
  [][\A userPartial \in UpdatePartials, updatedBy \in Updaters :
       (update(userPartial, updatedBy) /\ last'.ok)
       => \A i \in Rows :
            users[i].id = userPartial.id
            => /\ users'[i].updatedBy = updatedBy
               /\ IF "password" \in DOMAIN userPartial /\ userPartial.password # ""
                  THEN /\ users'[i].password = encrypt(userPartial.password)
                       /\ \A secret \in Secrets :
                            verifyOutcome([username |-> users'[i].username,
                                           password |-> secret],
                                          {users'[i]}).ok
                            <=> secret = userPartial.password
                  ELSE /\ users'[i].password = users[i].password
                       /\ \A secret \in Secrets :
                            verifyOutcome([username |-> users'[i].username,
                                           password |-> secret],
                                          {users'[i]}).ok
                            <=> verifyOutcome([username |-> users[i].username,
                                               password |-> secret],
                                              {users[i]}).ok]_vars

\* no e-mail step is pending for the account and none was delivered for it
NoEmailComing(id) ==
  /\ \A call \in BagToSet(inflight) :
       ~(call.op = "create" /\ call.pc = "sendEmail" /\ call.user.id = id)
  /\ \A m \in outbox : LinkToken(m).userId # {id}

\* C15: when the e-mail step of a create fails (token generation or sending),
\* the call ends with an error, every stored account, the one just persisted
\* included, stays as it was and nothing is delivered; an account with no
\* e-mail step pending and no e-mail delivered never gets one; and a create
\* with the username or the email of such an account is rejected with the
\* 'already exists' error.
C15_NoRollbackOnEmailFailure ==
  [][/\ \A call \in BagToSet(inflight) :
          (sendAccountActivationEmail(call) /\ ~last'.ok)
          => /\ last'.err \in {{TokenError}, {EmailError}}
             /\ users' = users
             /\ \E i \in Rows : users[i].id = call.user.id
             /\ outbox' = outbox
             /\ inflight' = inflight (-) SetToBag({call})
             /\ NoEmailComing(call.user.id)'
     /\ \A i \in Rows :
          NoEmailComing(users[i].id) => NoEmailComing(users[i].id)'
     /\ \A newUserPartial \in CreatePartials, createdBy \in Creators :
          (/\ create(newUserPartial, createdBy)
           /\ last'.err # {StoreError}
           /\ \E i \in Rows : /\ NoEmailComing(users[i].id)
                               /\ users[i].username = newUserPartial.username)
          => last'.err = {AlreadyExists}
     /\ \A call \in BagToSet(inflight) :
          (/\ createCheckEmail(call)
           /\ last'.err # {StoreError}
           /\ \E i \in Rows : /\ NoEmailComing(users[i].id)
                               /\ users[i].email = call.args.partial.email)
          => last'.err = {AlreadyExists}]_vars

C15_Witness ==
  /\ calls = 2
  /\ last.op = "create"
  /\ last.err = {AlreadyExists}
  /\ inflight = EmptyBag
  /\ Len(users) = 1
  /\ ~users[1].active
  /\ NoEmailComing(users[1].id)

\* C16: activate accepts every token that verifies and names a subject,
\* whatever was activated before (no token is used up), and the answered
\* update of an activate whose subject account is stored and already active
\* completes without error and leaves every account as it was.
C16_RepeatedActivation ==
  [][/\ \A token \in PresentedTokens :
          (/\ activate(token)
           /\ isNil(tokenVerifyError(token, AccessTokenSecret))
           /\ ~isNil(token.userId))
          => /\ last' = last
             /\ inflight' = inflight (+) SetToBag({[op |-> "activate",
                                                    pc |-> "update",
                                                    userId |-> token.userId]})
     /\ \A call \in BagToSet(inflight) :
          (/\ activateUpdate(call)
           /\ last'.err # {StoreError}
           /\ \E i \in Rows : users[i].id \in call.userId /\ users[i].active)
          => (last'.ok /\ users' = users)]_vars

\* account 1 was activated by an activate call (no update has written it)
\* and a further verified activate for it is in flight
C16_Witness ==
  /\ Idle
  /\ calls = 3
  /\ Len(users) = 1
  /\ users[1].active
  /\ users[1].updatedBy = users[1].createdBy
  /\ \E m \in outbox : LinkToken(m).userId = {users[1].id}
  /\ \E call \in BagToSet(inflight) :
       /\ call.op = "activate"
       /\ call.pc = "update"
       /\ call.userId = {users[1].id}
       /\ ENABLED (activateUpdate(call) /\ last'.ok /\ users' = users)

\* C17: a step of verify, find or findByField, returning or throwing, issues
\* no store write and sends no e-mail: the accounts, the delivered messages
\* and the requests in flight are the same after it as before.
C17_LookupsReadOnly ==
  [][(\/ \E credentials \in Credentials : verify(credentials)
      \/ \E userId \in UserIds : find(userId)
      \/ \E lookup \in Lookups : findByField(lookup[1], lookup[2]))
     => (/\ last'.op \in {"verify", "find", "findByField"}
         /\ users' = users
         /\ outbox' = outbox
         /\ inflight' = inflight)]_vars

C17_Witness ==
  /\ last.op = "verify"
  /\ last.ok
  /\ \E i \in Rows : users[i].id = TheOne(last.ret).id /\ users[i].active

\* C18: a step in which a call fails writes nothing, sends nothing and ends
\* that call (it leaves the requests in flight, or never enters them); every
\* store write is the single write of its call: the insert of a create, after
\* which the call only has its e-mail step left, the update of an activate,
\* which ends the call, or the update of an update, which is the whole call.
C18_NoRetries ==
  [][/\ (last'.op # "none" /\ ~last'.ok)
        => (users' = users /\ outbox' = outbox)
     /\ \A call \in BagToSet(inflight) :
          (/\ ~last'.ok
           /\ \/ createCheckEmail(call)
              \/ createInsert(call)
              \/ sendAccountActivationEmail(call)
              \/ activateUpdate(call))
          => inflight' = inflight (-) SetToBag({call})
     /\ (/\ ~last'.ok
         /\ \/ \E token \in PresentedTokens : activate(token)
            \/ \E newUserPartial \in CreatePartials, createdBy \in Creators :
                 create(newUserPartial, createdBy)
            \/ \E userPartial \in UpdatePartials, updatedBy \in Updaters :
                 update(userPartial, updatedBy))
        => inflight' = inflight
     /\ users' # users
        => \/ \E call \in BagToSet(inflight) :
               /\ createInsert(call)
               /\ BagToSet(inflight') \ BagToSet(inflight)
                    = {[op |-> "create", pc |-> "sendEmail", args |-> call.args,
                        user |-> users'[Len(users')]]}
           \/ \E call \in BagToSet(inflight) :
               /\ activateUpdate(call)
               /\ inflight' = inflight (-) SetToBag({call})
           \/ \E userPartial \in UpdatePartials, updatedBy \in Updaters :
               /\ update(userPartial, updatedBy)
               /\ inflight' = inflight
     /\ \A call \in BagToSet(inflight) :
          sendAccountActivationEmail(call)
          => (users' = users /\ inflight' = inflight (-) SetToBag({call}))]_vars

C18_Witness ==
  /\ last.op = "create"
  /\ last.err = {TokenError}
  /\ Len(users) = 1
  /\ outbox = {}
  /\ inflight = EmptyBag

\* C19: at most one Logger object is ever constructed, it is constructed by
\* the first call of getInstance, and every call returns that one object.
C19_SingleLogger ==
  /\ logger.constructed <= 1
  /\ logger.constructed = 1 <=> logger.gets > 0
  /\ logger.returned = logger.instance
  /\ Cardinality(logger.returned) <= 1

C19_Witness ==
  /\ logger.gets >= 2
  /\ logger.constructed = 1
  /\ logger.returned = {1}

====
